---- MODULE Spec2Model ----
(***************************************************************************)
(* A model of the job-match repository:                                    *)
(*   src/src/extract_skills.py        normalizer, known-skill matcher,      *)
(*                                    dynamic-token detector, comparator    *)
(*   src/src/tailor_resume_generic.py resume tailorer and its entry point   *)
(*                                                                         *)
(* Python strings are TLA+ strings: TLC evaluates Len, \o and SubSeq on    *)
(* them, so a text is indexed from 1 and Ch(s, i) is its i-th character.   *)
(* Texts are ASCII; the regex classes \w, \s, \d are their ASCII parts.    *)
(***************************************************************************)
EXTENDS Integers, Sequences, FiniteSets, TLC

VARIABLES
    pc,             \* position of the running script
    skills,         \* the vocabulary list load_skills returned
    matched,        \* the local of that name in the running script
    missing,
    \* extract_skills.py
    jd_text,        \* data/jd/jd.txt as read
    resume_text,    \* data/resume/resume.txt as read
    jd_norm, resume_norm,
    jd_known, resume_known,
    jd_dyn, resume_dyn,
    dyn_shared, jd_skills, resume_skills,
    match_percent,
    \* tailor_resume_generic.py
    jd_file,        \* data/jd/jd.txt
    resume_file,    \* data/resume/resume.txt
    skills_file,    \* src/skills_master.txt
    out_file,       \* out/tailored_resume.txt
    jd, resume,     \* main's locals
    out,            \* the draft build_resume returned: its CORE SKILLS and
                    \* EXPERIENCE lines
    bullets,        \* the list build_experience_bullets returned
    max_items,      \* build_skills_section's argument of that name
    skills_line     \* the line build_skills_section returned

----------------------------------------------------------------------------
(* Characters and strings *)

Ch(s, i) == SubSeq(s, i, i)

CharsOf(s) == {Ch(s, i) : i \in 1..Len(s)}

LOWERCASE == "abcdefghijklmnopqrstuvwxyz"
UPPERCASE == "ABCDEFGHIJKLMNOPQRSTUVWXYZ"
DIGITS == "0123456789"

LowerSet == CharsOf(LOWERCASE)
UpperSet == CharsOf(UPPERCASE)
DigitSet == CharsOf(DIGITS)
LetterSet == LowerSet \cup UpperSet

\* \w of a Python str pattern, on ASCII
IsWordCh(c) == c \in LetterSet \cup DigitSet \cup {"_"}

\* \s of a Python str pattern, on ASCII
IsSpaceCh(c) == c \in {" ", "\t", "\n", "\r", "\f"}

\* str.lower() on one character
LowerCh(c) ==
    IF c \in UpperSet
    THEN Ch(LOWERCASE, CHOOSE i \in 1..Len(UPPERCASE) : Ch(UPPERCASE, i) = c)
    ELSE c

RECURSIVE Lower(_)
\* str.lower()
Lower(s) ==
    IF s = "" THEN ""
    ELSE LowerCh(Ch(s, 1)) \o Lower(SubSeq(s, 2, Len(s)))

\* s.startswith(p), s.endswith(p), p in s
StartsWith(s, p) == Len(p) <= Len(s) /\ SubSeq(s, 1, Len(p)) = p
EndsWith(s, p) == Len(p) <= Len(s) /\ SubSeq(s, Len(s) - Len(p) + 1, Len(s)) = p
Contains(s, p) == \E i \in 1..(Len(s) - Len(p) + 1) : SubSeq(s, i, i + Len(p) - 1) = p

RECURSIVE LStrip(_)
LStrip(s) ==
    IF s # "" /\ IsSpaceCh(Ch(s, 1)) THEN LStrip(SubSeq(s, 2, Len(s))) ELSE s

RECURSIVE RStrip(_)
RStrip(s) ==
    IF s # "" /\ IsSpaceCh(Ch(s, Len(s))) THEN RStrip(SubSeq(s, 1, Len(s) - 1)) ELSE s

\* str.strip()
Strip(s) == RStrip(LStrip(s))

RECURSIVE Replace(_, _, _)
\* str.replace(k, v) for a non-empty k: every non-overlapping occurrence, left to right
Replace(s, k, v) ==
    IF Len(s) < Len(k) THEN s
    ELSE IF SubSeq(s, 1, Len(k)) = k
         THEN v \o Replace(SubSeq(s, Len(k) + 1, Len(s)), k, v)
         ELSE Ch(s, 1) \o Replace(SubSeq(s, 2, Len(s)), k, v)

\* the regex assertion \b before position p (1..Len(t)+1) of t
IsWordAt(t, p) == p >= 1 /\ p <= Len(t) /\ IsWordCh(Ch(t, p))
WordBoundary(t, p) == IsWordAt(t, p - 1) # IsWordAt(t, p)

----------------------------------------------------------------------------
(* extract_skills.py: tables *)

\* the dict in insertion order, which is the order normalize applies it in
ALIASES == <<
    <<"js", "javascript">>,
    <<"ts", "typescript">>,
    <<"node js", "node.js">>,
    <<"golang", "go">>,
    <<"c sharp", "c#">>,
    <<"dot net", "dotnet">>,
    <<"asp net", "asp.net">>,
    <<"google cloud platform", "gcp">>,
    <<"google cloud", "gcp">>,
    <<"amazon web services", "aws">>,
    <<"ci cd", "ci/cd">>,
    <<"k8s", "kubernetes">>,
    <<"argocd", "argo cd">>,
    <<"pyspark", "spark">>,
    <<"spark sql", "spark">>,
    <<"gcs", "cloud storage">> >>

STOPWORDS == {
    "a", "an", "and", "are", "as", "at", "be", "been", "being", "by", "can", "could",
    "did", "do", "does", "doing", "for", "from", "had", "has", "have", "having",
    "he", "her", "hers", "him", "his", "i", "if", "in", "into", "is", "it", "its",
    "me", "my", "of", "on", "or", "our", "ours", "she", "so", "than", "that", "the",
    "their", "them", "they", "this", "those", "to", "was", "we", "were", "what",
    "when", "where", "which", "who", "why", "will", "with", "would", "you", "your" }

US_STATES == {
    "alabama", "alaska", "arizona", "arkansas", "california", "colorado",
    "connecticut", "delaware", "florida", "georgia", "hawaii", "idaho", "illinois",
    "indiana", "iowa", "kansas", "kentucky", "louisiana", "maine", "maryland",
    "massachusetts", "michigan", "minnesota", "mississippi", "missouri", "montana",
    "nebraska", "nevada", "new", "hampshire", "jersey", "mexico", "york", "north",
    "carolina", "dakota", "ohio", "oklahoma", "oregon", "pennsylvania", "rhode",
    "island", "south", "tennessee", "texas", "utah", "vermont", "virginia",
    "washington", "west", "wisconsin", "wyoming" }

LEGAL_JUNK == {
    "equal", "employment", "opportunity", "ordinances", "notice", "notices",
    "non-sales", "incentive", "pay", "plan", "qualifications", "legal",
    "state-specific" }

----------------------------------------------------------------------------
(* extract_skills.py: normalize *)

RECURSIVE ApplyAliases(_, _)
\* for k, v in ALIASES.items(): text = text.replace(k, v), from entry i on
ApplyAliases(text, i) ==
    IF i > Len(ALIASES) THEN text
    ELSE ApplyAliases(Replace(text, ALIASES[i][1], ALIASES[i][2]), i + 1)

\* one character under re.sub(r"[^a-z0-9\s\+\.\#\/\-]", " ", text)
KeepCh(c) ==
    IF c \in LowerSet \cup DigitSet \cup {"+", ".", "#", "/", "-"} \/ IsSpaceCh(c)
    THEN c ELSE " "

RECURSIVE KeepChars(_)
\* re.sub(r"[^a-z0-9\s\+\.\#\/\-]", " ", text)
KeepChars(s) ==
    IF s = "" THEN ""
    ELSE KeepCh(Ch(s, 1)) \o KeepChars(SubSeq(s, 2, Len(s)))

RECURSIVE CollapseSpaces(_)
\* re.sub(r"\s+", " ", text)
CollapseSpaces(s) ==
    IF s = "" THEN ""
    ELSE IF IsSpaceCh(Ch(s, 1))
         THEN " " \o CollapseSpaces(LStrip(s))
         ELSE Ch(s, 1) \o CollapseSpaces(SubSeq(s, 2, Len(s)))

normalize(text) ==
    Strip(CollapseSpaces(KeepChars(ApplyAliases(Lower(text), 1))))

----------------------------------------------------------------------------
(* extract_skills.py: extract_known_skills *)

\* SearchWord without the two \b: the entry anywhere in the text
SearchWordNoBoundary(skill, text) == Contains(text, skill)

\* re.search(rf"\b{re.escape(skill)}\b", text)
SearchWord(skill, text) ==
    \E i \in 1..(Len(text) - Len(skill) + 1) :
        /\ WordBoundary(text, i)
        /\ SubSeq(text, i, i + Len(skill) - 1) = skill
        /\ WordBoundary(text, i + Len(skill))

\* " " in skill or any(ch in skill for ch in ".#+/")
IsPhraseSkill(skill) == CharsOf(skill) \cap {" ", ".", "#", "+", "/"} # {}

SkillFound(skill, text) ==
    IF IsPhraseSkill(skill) THEN Contains(text, skill) ELSE SearchWord(skill, text)

extract_known_skills(text, vocabulary) ==
    {vocabulary[i] : i \in {j \in 1..Len(vocabulary) : SkillFound(vocabulary[j], text)}}

----------------------------------------------------------------------------
(* extract_skills.py: is_bad_token, extract_dynamic_tech_tokens *)

\* re.fullmatch(r"\d+", t)
IsNumber(t) == t # "" /\ CharsOf(t) \subseteq DigitSet

is_bad_token(tok) ==
    LET t == Strip(Lower(tok)) IN
    \/ Len(t) < 2
    \/ t \in STOPWORDS \/ t \in US_STATES \/ t \in LEGAL_JUNK
    \/ EndsWith(t, ".com") \/ EndsWith(t, ".io") \/ EndsWith(t, ".ai")
    \/ IsNumber(t)

\* t[a..b] lies in t and all its characters are in S
AllIn(t, a, b, S) == b <= Len(t) /\ \A j \in a..b : Ch(t, j) \in S

\* The matchers give the position after the match of a pattern that starts at
\* position i of t, or 0 when the pattern does not match there. Of the ways a
\* pattern can match, the regex engine takes the first in its greedy order.

\* \b[A-Za-z]{1,10}\d{1,4}\b : n letters, m digits
MatchDigitToken(t, i) ==
    LET ways == {w \in (1..10) \X (1..4) :
                    /\ AllIn(t, i, i + w[1] - 1, LetterSet)
                    /\ AllIn(t, i + w[1], i + w[1] + w[2] - 1, DigitSet)
                    /\ WordBoundary(t, i + w[1] + w[2])}
        first == CHOOSE w \in ways :
                    \A v \in ways : v[1] < w[1] \/ (v[1] = w[1] /\ v[2] <= w[2])
    IN  IF WordBoundary(t, i) /\ ways # {} THEN i + first[1] + first[2] ELSE 0

DottedSuffixes == <<"js", "net", "io">>

\* \b[A-Za-z][A-Za-z0-9]*\.(?:js|net|io)\b with re.I : a letter, n more
\* letters or digits, a dot, the k-th suffix in any case
MatchDotted(t, i) ==
    LET ways == {w \in (0..Len(t)) \X (1..Len(DottedSuffixes)) :
                    /\ AllIn(t, i, i, LetterSet)
                    /\ AllIn(t, i + 1, i + w[1], LetterSet \cup DigitSet)
                    /\ AllIn(t, i + w[1] + 1, i + w[1] + 1, {"."})
                    /\ i + w[1] + 1 + Len(DottedSuffixes[w[2]]) <= Len(t)
                    /\ Lower(SubSeq(t, i + w[1] + 2,
                                    i + w[1] + 1 + Len(DottedSuffixes[w[2]])))
                         = DottedSuffixes[w[2]]
                    /\ WordBoundary(t, i + w[1] + 2 + Len(DottedSuffixes[w[2]]))}
        first == CHOOSE w \in ways :
                    \A v \in ways : v[1] < w[1] \/ (v[1] = w[1] /\ v[2] >= w[2])
    IN  IF WordBoundary(t, i) /\ ways # {}
        THEN i + first[1] + 2 + Len(DottedSuffixes[first[2]]) ELSE 0

\* \bC\+\+|C#\b : the alternation binds loosest, so \b guards the front of
\* "C++" and the back of "C#"
MatchCFamily(t, i) ==
    IF WordBoundary(t, i) /\ i + 2 <= Len(t) /\ SubSeq(t, i, i + 2) = "C++" THEN i + 3
    ELSE IF i + 1 <= Len(t) /\ SubSeq(t, i, i + 1) = "C#" /\ WordBoundary(t, i + 2)
         THEN i + 2
         ELSE 0

\* \b[A-Z]{2,6}\b
MatchAcronym(t, i) ==
    LET ways == {n \in 2..6 : AllIn(t, i, i + n - 1, UpperSet) /\ WordBoundary(t, i + n)}
        first == CHOOSE n \in ways : \A m \in ways : m <= n
    IN  IF WordBoundary(t, i) /\ ways # {} THEN i + first ELSE 0

\* the four patterns of extract_dynamic_tech_tokens, by name
MatchAt(pattern, t, i) ==
    CASE pattern = "digit_token" -> MatchDigitToken(t, i)
      [] pattern = "dotted" -> MatchDotted(t, i)
      [] pattern = "c_family" -> MatchCFamily(t, i)
      [] pattern = "acronym" -> MatchAcronym(t, i)

RECURSIVE FindAll(_, _, _)
\* set(re.findall(pattern, t)): scan from pos; after a match resume at its end
FindAll(pattern, t, pos) ==
    IF pos > Len(t) THEN {}
    ELSE LET e == MatchAt(pattern, t, pos) IN
         IF e = 0 THEN FindAll(pattern, t, pos + 1)
         ELSE {SubSeq(t, pos, e - 1)} \cup FindAll(pattern, t, e)

extract_dynamic_tech_tokens(original_text) ==
    LET tokens == FindAll("digit_token", original_text, 1)
                  \cup FindAll("dotted", original_text, 1)
                  \cup FindAll("c_family", original_text, 1)
                  \cup FindAll("acronym", original_text, 1)
    IN  {Lower(tok) : tok \in {k \in tokens : ~is_bad_token(Lower(k))}}

----------------------------------------------------------------------------
(* extract_skills.py: the script body (lines 124-158) *)

\* a / b as Python evaluates it: an exact quotient, or ZeroDivisionError
Divide(a, b) ==
    IF b = 0 THEN [raised |-> TRUE, num |-> 0, den |-> 1]
    ELSE [raised |-> FALSE, num |-> a, den |-> b]

\* q * k
Times(q, k) == [q EXCEPT !.num = q.num * k]

\* match_percent_of without the "if jd_skills" guard
match_percent_unguarded(m, js) == Times(Divide(Cardinality(m), Cardinality(js)), 100)

\* (len(matched) / len(jd_skills)) * 100 if jd_skills else 0
match_percent_of(m, js) ==
    IF js # {} THEN Times(Divide(Cardinality(m), Cardinality(js)), 100)
    ELSE [raised |-> FALSE, num |-> 0, den |-> 1]

RECURSIVE Documents(_, _)
\* the texts of at most n words of W, one space between two words
Documents(W, n) ==
    IF n = 0 THEN {""}
    ELSE LET shorter == Documents(W, n - 1) IN
         shorter \cup {IF d = "" THEN w ELSE d \o " " \o w : d \in shorter, w \in W}

MaxJdWords == 2
MaxResumeWords == 1

Words == {"Python", "AWS", "S3", "OHIO"}

ScenarioTexts == {
    "we use node.js daily",
    "we use nodejs daily",
    "going to work",
    "go build it",
    "Deployed via AWS S3 and EC2 using OAuth",
    "CI & CD pipelines" }

JdTexts == Documents(Words, MaxJdWords) \cup ScenarioTexts
ResumeTexts == Documents(Words, MaxResumeWords)

\* what load_skills can return: lowercase, stripped, non-empty, no duplicates
Vocabularies == {
    <<"python", "sql", "aws", "airflow", "docker", "go", "node.js">>,
    <<"s3", "js", "c#">>,
    << >> }

vars == <<pc, skills, matched, missing,
          jd_text, resume_text, jd_norm, resume_norm, jd_known, resume_known,
          jd_dyn, resume_dyn, dyn_shared, jd_skills, resume_skills, match_percent,
          jd_file, resume_file, skills_file, out_file, jd, resume, out, bullets,
          max_items, skills_line>>

\* the variables only extract_skills.py uses, and those only the tailorer uses
extractOnly == <<jd_text, resume_text, jd_norm, resume_norm, jd_known, resume_known,
                 jd_dyn, resume_dyn, dyn_shared, jd_skills, resume_skills,
                 match_percent>>
tailorOnly == <<jd_file, resume_file, skills_file, out_file, jd, resume, out, bullets,
                max_items, skills_line>>

\* max_items: int = 18
DefaultMaxItems == 18

NoFile == [exists |-> FALSE, text |-> ""]
File(text) == [exists |-> TRUE, text |-> text]

\* the tailorer's variables while extract_skills.py runs
TailorIdle ==
    /\ jd_file = NoFile /\ resume_file = NoFile /\ skills_file = NoFile
    /\ out_file = NoFile
    /\ jd = "" /\ resume = "" /\ out = << >> /\ bullets = << >>
    /\ max_items = DefaultMaxItems /\ skills_line = ""

\* the variables of extract_skills.py while the tailorer runs
ExtractIdle ==
    /\ jd_text = "" /\ resume_text = ""
    /\ jd_norm = "" /\ resume_norm = ""
    /\ jd_known = {} /\ resume_known = {}
    /\ jd_dyn = {} /\ resume_dyn = {}
    /\ dyn_shared = {} /\ jd_skills = {} /\ resume_skills = {}
    /\ match_percent = [raised |-> FALSE, num |-> 0, den |-> 1]

\* lines 125-128: the vocabulary and the two documents are read
Init ==
    /\ pc = "read"
    /\ jd_text \in JdTexts
    /\ resume_text \in ResumeTexts
    /\ skills \in Vocabularies
    /\ jd_norm = "" /\ resume_norm = ""
    /\ jd_known = {} /\ resume_known = {}
    /\ jd_dyn = {} /\ resume_dyn = {}
    /\ dyn_shared = {} /\ jd_skills = {} /\ resume_skills = {}
    /\ matched = {} /\ missing = {}
    /\ match_percent = [raised |-> FALSE, num |-> 0, den |-> 1]
    /\ TailorIdle

\* lines 130-131
Normalize ==
    /\ pc = "read"
    /\ jd_norm' = normalize(jd_text)
    /\ resume_norm' = normalize(resume_text)
    /\ pc' = "normalized"
    /\ UNCHANGED tailorOnly
    /\ UNCHANGED <<jd_text, resume_text, skills, jd_known, resume_known, jd_dyn,
                   resume_dyn, dyn_shared, jd_skills, resume_skills, matched,
                   missing, match_percent>>

\* lines 133-134
ExtractKnown ==
    /\ pc = "normalized"
    /\ jd_known' = extract_known_skills(jd_norm, skills)
    /\ resume_known' = extract_known_skills(resume_norm, skills)
    /\ pc' = "known"
    /\ UNCHANGED tailorOnly
    /\ UNCHANGED <<jd_text, resume_text, skills, jd_norm, resume_norm, jd_dyn,
                   resume_dyn, dyn_shared, jd_skills, resume_skills, matched,
                   missing, match_percent>>

\* lines 137-138
ExtractDynamic ==
    /\ pc = "known"
    /\ jd_dyn' = extract_dynamic_tech_tokens(jd_text)
    /\ resume_dyn' = extract_dynamic_tech_tokens(resume_text)
    /\ pc' = "dynamic"
    /\ UNCHANGED tailorOnly
    /\ UNCHANGED <<jd_text, resume_text, skills, jd_norm, resume_norm, jd_known,
                   resume_known, dyn_shared, jd_skills, resume_skills, matched,
                   missing, match_percent>>

\* SharedDynamic counting every dynamic token of either document
SharedDynamicUnion(jd_tokens, resume_tokens) == jd_tokens \cup resume_tokens

\* SharedDynamic trusting the job description's tokens alone
SharedDynamicJdOnly(jd_tokens, resume_tokens) == jd_tokens

\* line 141
SharedDynamic(jd_tokens, resume_tokens) == jd_tokens \cap resume_tokens

\* MissingSkills with its operands exchanged
MissingSkillsSwapped(js, rs) == rs \ js

\* line 147
MissingSkills(js, rs) == js \ rs

\* lines 141-147
Compare ==
    /\ pc = "dynamic"
    /\ dyn_shared' = SharedDynamic(jd_dyn, resume_dyn)
    /\ jd_skills' = jd_known \cup dyn_shared'
    /\ resume_skills' = resume_known \cup dyn_shared'
    /\ matched' = jd_skills' \cap resume_skills'
    /\ missing' = MissingSkills(jd_skills', resume_skills')
    /\ pc' = "compared"
    /\ UNCHANGED tailorOnly
    /\ UNCHANGED <<jd_text, resume_text, skills, jd_norm, resume_norm, jd_known,
                   resume_known, jd_dyn, resume_dyn, match_percent>>

\* line 149, then the report of lines 151-158; a ZeroDivisionError ends the script
ComputePercent ==
    /\ pc = "compared"
    /\ match_percent' = match_percent_of(matched, jd_skills)
    /\ pc' = IF match_percent'.raised THEN "crashed" ELSE "done"
    /\ UNCHANGED tailorOnly
    /\ UNCHANGED <<jd_text, resume_text, skills, jd_norm, resume_norm, jd_known,
                   resume_known, jd_dyn, resume_dyn, dyn_shared, jd_skills,
                   resume_skills, matched, missing>>

Next ==
    \/ Normalize
    \/ ExtractKnown
    \/ ExtractDynamic
    \/ Compare
    \/ ComputePercent

Spec == Init /\ [][Next]_vars

----------------------------------------------------------------------------
(* Properties of extract_skills.py, under Spec *)

Compared == pc \in {"compared", "done", "crashed"}

\* C1: once the comparator has run, matched and missing partition jd_skills:
\* matched \cup missing = jd_skills and matched \cap missing = {}, where
\* jd_skills = jd_known \cup dyn_shared, matched = jd_skills \cap resume_skills
\* and missing = jd_skills \ resume_skills.
C1_Partition ==
    Compared =>
        /\ matched \cup missing = jd_skills
        /\ matched \cap missing = {}
        /\ jd_skills = jd_known \cup dyn_shared
        /\ matched = jd_skills \cap resume_skills
        /\ missing = jd_skills \ resume_skills

\* a run with a shared dynamic token, a matched and a missing skill
C1_Witness ==
    pc = "done" /\ dyn_shared # {} /\ matched # {} /\ missing # {}

known(text, V) == extract_known_skills(normalize(text), V)
dyn(text) == extract_dynamic_tech_tokens(text)

\* C2 as stated: missing = (known(A,V) \cup dyn(A)) \ (known(B,V) \cup dyn(B))
\* and matched = (known(A,V) \cap known(B,V)) \cup (dyn(A) \cap dyn(B)), for
\* A the job description, B the resume and V the vocabulary.
C2_AsStated ==
    pc = "done" =>
        /\ missing = (known(jd_text, skills) \cup dyn(jd_text))
                        \ (known(resume_text, skills) \cup dyn(resume_text))
        /\ matched = (known(jd_text, skills) \cap known(resume_text, skills))
                        \cup (dyn(jd_text) \cap dyn(resume_text))

\* C2 amended: only the dynamic tokens of both documents count, so
\* missing = (known(A,V) \cup shared) \ (known(B,V) \cup shared) with
\* shared = dyn(A) \cap dyn(B), and matched = (known(A,V) \cap known(B,V)) \cup shared.
C2_SharedOnly ==
    pc = "done" =>
        LET shared == dyn(jd_text) \cap dyn(resume_text) IN
        /\ missing = (known(jd_text, skills) \cup shared)
                        \ (known(resume_text, skills) \cup shared)
        /\ matched = (known(jd_text, skills) \cap known(resume_text, skills))
                        \cup shared

\* a run where the job description has a dynamic token the resume lacks, which
\* is no known skill of either, beside a missing known skill
C2_Witness ==
    /\ pc = "done"
    /\ missing # {}
    /\ (jd_dyn \ resume_dyn) \ (jd_known \cup resume_known) # {}

\* C3: a dynamic token counts only when both documents have it: every element
\* of jd_skills (resume_skills) is a known skill of the job description (the
\* resume) or a dynamic token of both, and a dynamic token of one document
\* alone is in a skill set, in matched or in missing only as a known skill.
C3_DynamicOnlyWhenShared ==
    Compared =>
        /\ jd_skills \subseteq jd_known \cup (jd_dyn \cap resume_dyn)
        /\ resume_skills \subseteq resume_known \cup (jd_dyn \cap resume_dyn)
        /\ \A t \in (jd_dyn \cup resume_dyn) \ (jd_dyn \cap resume_dyn) :
              /\ t \in jd_skills => t \in jd_known
              /\ t \in resume_skills => t \in resume_known
              /\ t \in matched => t \in jd_known /\ t \in resume_known
              /\ t \in missing => t \in jd_known

\* a run where a dynamic token of the job description alone was left out
C3_Witness ==
    /\ pc = "done"
    /\ \E t \in jd_dyn \ resume_dyn : t \notin jd_skills /\ t \notin missing

\* C4: the script never divides by zero; match_percent is 0 when jd_skills is
\* empty, 100 * |matched| / |jd_skills| otherwise, and lies in [0, 100].
C4_MatchPercent ==
    /\ pc # "crashed"
    /\ pc = "done" =>
        /\ ~match_percent.raised
        /\ match_percent.den > 0
        /\ jd_skills = {} => match_percent.num = 0
        /\ jd_skills # {} =>
              match_percent.num * Cardinality(jd_skills)
                  = 100 * Cardinality(matched) * match_percent.den
        /\ 0 <= match_percent.num
        /\ match_percent.num <= 100 * match_percent.den

\* a finished run whose job description had no skill at all
C4_Witness ==
    pc = "done" /\ jd_skills = {} /\ match_percent.num = 0

\* C5: normalize is idempotent: normalizing the normalized job description or
\* resume again changes nothing.
C5_Idempotent ==
    pc # "read" =>
        /\ normalize(jd_norm) = jd_norm
        /\ normalize(resume_norm) = resume_norm

\* C6: with "node.js" in the vocabulary, the script reports it for the job
\* description "we use node.js daily" and not for "we use nodejs daily".
C6_NodeJsContainment ==
    (pc \notin {"read", "normalized"} /\ \E i \in DOMAIN skills : skills[i] = "node.js") =>
        /\ jd_text = "we use node.js daily" => "node.js" \in jd_known
        /\ jd_text = "we use nodejs daily" => "node.js" \notin jd_known

\* w occurs in t with no word character directly before or after it
OccursStandalone(w, t) ==
    \E i \in 1..(Len(t) - Len(w) + 1) :
        /\ SubSeq(t, i, i + Len(w) - 1) = w
        /\ ~IsWordAt(t, i - 1)
        /\ ~IsWordAt(t, i + Len(w))

IsBareWord(w) == CharsOf(w) \subseteq LetterSet \cup DigitSet

\* C7: a bare alphanumeric vocabulary entry is reported only where it occurs
\* with no word character next to it; "go" is not reported for "going to
\* work" and is reported for "go build it".
C7_WordBoundary ==
    pc \notin {"read", "normalized"} =>
        \A i \in DOMAIN skills :
            IsBareWord(skills[i]) =>
                /\ skills[i] \in jd_known => OccursStandalone(skills[i], jd_norm)
                /\ skills[i] \in resume_known => OccursStandalone(skills[i], resume_norm)
                /\ (skills[i] = "go" /\ jd_norm = "going to work") => "go" \notin jd_known
                /\ (skills[i] = "go" /\ jd_norm = "go build it") => "go" \in jd_known

\* the matcher has run on "going to work" with "go" in the vocabulary
C7_Witness ==
    /\ pc = "known"
    /\ jd_norm = "going to work"
    /\ \E i \in DOMAIN skills : skills[i] = "go"
    /\ "go" \notin jd_known

\* C8: the detector finds "s3", "ec2" and "oauth" in "Deployed via AWS S3 and
\* EC2 using OAuth", and never returns a stopword or a US state name.
C8_DynamicScenario ==
    pc \in {"dynamic", "compared", "done"} =>
        /\ jd_text = "Deployed via AWS S3 and EC2 using OAuth"
              => {"s3", "ec2", "oauth"} \subseteq jd_dyn
        /\ jd_dyn \cap (STOPWORDS \cup US_STATES) = {}
        /\ resume_dyn \cap (STOPWORDS \cup US_STATES) = {}

----------------------------------------------------------------------------
(* tailor_resume_generic.py: helpers *)

\* the characters of skill names in code-point order, the order sorted() uses
ASCII == " #+-./" \o DIGITS \o UPPERCASE \o "_" \o LOWERCASE

CodePoint(c) == CHOOSE i \in 1..Len(ASCII) : Ch(ASCII, i) = c

RECURSIVE StrLess(_, _)
\* a < b on Python strings
StrLess(a, b) ==
    IF b = "" THEN FALSE
    ELSE IF a = "" THEN TRUE
    ELSE IF Ch(a, 1) = Ch(b, 1)
         THEN StrLess(SubSeq(a, 2, Len(a)), SubSeq(b, 2, Len(b)))
         ELSE CodePoint(Ch(a, 1)) < CodePoint(Ch(b, 1))

RECURSIVE Sorted(_)
\* sorted(S) for a set of strings
Sorted(S) ==
    IF S = {} THEN << >>
    ELSE LET least == CHOOSE x \in S : \A y \in S : x = y \/ StrLess(x, y)
         IN  <<least>> \o Sorted(S \ {least})

\* [x for x in seq if x in S]
Only(seq, S) == SelectSeq(seq, LAMBDA x : x \in S)

\* seq[:n]
Take(seq, n) == SubSeq(seq, 1, IF Len(seq) < n THEN Len(seq) ELSE n)

RECURSIVE Join(_, _)
\* sep.join(seq)
Join(seq, sep) ==
    IF seq = << >> THEN ""
    ELSE IF Len(seq) = 1 THEN seq[1]
    ELSE seq[1] \o sep \o Join(Tail(seq), sep)

RECURSIVE SplitLines(_, _)
\* str.splitlines(): cur is the line being read; \n, \r, \r\n and \f end a line
SplitLines(s, cur) ==
    IF s = "" THEN (IF cur = "" THEN << >> ELSE <<cur>>)
    ELSE IF Len(s) >= 2 /\ SubSeq(s, 1, 2) = "\r\n"
         THEN <<cur>> \o SplitLines(SubSeq(s, 3, Len(s)), "")
    ELSE IF Ch(s, 1) \in {"\n", "\r", "\f"}
         THEN <<cur>> \o SplitLines(SubSeq(s, 2, Len(s)), "")
    ELSE SplitLines(SubSeq(s, 2, Len(s)), cur \o Ch(s, 1))

RECURSIVE Dedupe(_, _)
\* the "de-dupe, preserve order" loop: seen is the set of entries already kept
Dedupe(seq, seen) ==
    IF seq = << >> THEN << >>
    ELSE IF seq[1] \in seen THEN Dedupe(Tail(seq), seen)
    ELSE <<seq[1]>> \o Dedupe(Tail(seq), seen \cup {seq[1]})

----------------------------------------------------------------------------
(* tailor_resume_generic.py: read_text, load_skills, normalize,
   extract_known_skills *)

SAFE_ALWAYS_ADD == {"jupyter", "pandas", "data analysis", "etl", "elt"}

read_text(file) == IF ~file.exists THEN "" ELSE Strip(file.text)

tailor_load_skills(file) ==
    LET stripped == [i \in DOMAIN SplitLines(read_text(file), "") |->
                        Lower(Strip(SplitLines(read_text(file), "")[i]))]
    IN  Dedupe(SelectSeq(stripped, LAMBDA l : l # "" /\ ~StartsWith(l, "#")), {})

\* one character under re.sub(r"[^a-z0-9\.\+\#\-\s/]", " ", t)
TailorKeepCh(c) ==
    IF c \in LowerSet \cup DigitSet \cup {".", "+", "#", "-", "/"} \/ IsSpaceCh(c)
    THEN c ELSE " "

RECURSIVE TailorKeepChars(_)
\* re.sub(r"[^a-z0-9\.\+\#\-\s/]", " ", t)
TailorKeepChars(s) ==
    IF s = "" THEN ""
    ELSE TailorKeepCh(Ch(s, 1)) \o TailorKeepChars(SubSeq(s, 2, Len(s)))

tailor_normalize(text) == Strip(CollapseSpaces(TailorKeepChars(Lower(text))))

tailor_extract_known_skills(text, vocabulary) ==
    LET t == tailor_normalize(text)
        Found(sk) ==
            /\ sk # ""
            /\ IF CharsOf(sk) \cap {" ", ".", "+", "#", "/", "-"} # {}
               THEN Contains(t, sk)
               ELSE SearchWord(sk, t)
    IN  {vocabulary[i] : i \in {j \in 1..Len(vocabulary) : Found(vocabulary[j])}}

----------------------------------------------------------------------------
(* tailor_resume_generic.py: build_experience_bullets, build_resume *)

\* the bullets of lines 277-291, each with the condition that appends it
SkillBullets(m, ms) ==
    (IF {"python", "sql"} \cap m # {}
     THEN <<"Built and supported data workflows using Python and SQL, including validation and basic monitoring.">>
     ELSE << >>)
    \o (IF "airflow" \in m
        THEN <<"Automated scheduled workflows with Airflow DAGs to improve reliability and repeatability of pipeline runs.">>
        ELSE << >>)
    \o (IF "dbt" \in m \/ "dbt" \in ms
        THEN (IF "dbt" \in m
              THEN <<"Developed transformation models with dbt-style practices (staging to marts) and maintained reusable SQL logic.">>
              ELSE <<"Familiarity with dbt concepts for SQL-based transformations and modular modeling (staging to marts).">>)
        ELSE << >>)
    \o (IF "data modeling" \in m
        THEN <<"Applied data modeling principles to produce analytics-ready datasets for reporting and downstream consumption.">>
        ELSE << >>)
    \o (IF "data quality" \in m
        THEN <<"Implemented data quality checks (nulls, schema, freshness) to reduce defects and improve trust in datasets.">>
        ELSE << >>)
    \o (IF "aws" \in m
        THEN <<"Worked with AWS services for data storage and processing while following access control and security basics.">>
        ELSE << >>)

\* lines 294-296
FallbackBullets ==
    <<"Delivered JD-aligned responsibilities with a focus on quality, documentation, and measurable business outcomes.",
      "Collaborated with cross-functional stakeholders to translate requirements into clear deliverables.">>

\* build_experience_bullets returning every bullet it built (no [:6])
build_experience_bullets_uncapped(job_title, m, ms) ==
    LET skill_bullets == SkillBullets(m, ms)
        base == IF skill_bullets = << >> THEN FallbackBullets ELSE skill_bullets
        safe_missing == Take(Only(Sorted(ms), SAFE_ALWAYS_ADD), 3)
    IN  IF safe_missing # << >>
        THEN Append(base, "Used tools aligned to the role including "
                            \o Join(safe_missing, ", ")
                            \o " for analysis and validation.")
        ELSE base

build_experience_bullets(job_title, m, ms) ==
    Take(build_experience_bullets_uncapped(job_title, m, ms), 6)

RECURSIVE CapLoop(_, _, _, _)
\* the loop of lines 259-265 over what is left of ordered: skip an entry
\* already seen, else append it and stop when len(out) >= cap
CapLoop(ordered, seen, kept, cap) ==
    IF ordered = << >> THEN kept
    ELSE IF ordered[1] \in seen THEN CapLoop(Tail(ordered), seen, kept, cap)
    ELSE IF Len(kept) + 1 >= cap THEN Append(kept, ordered[1])
    ELSE CapLoop(Tail(ordered), seen \cup {ordered[1]}, Append(kept, ordered[1]), cap)

\* the list out of build_skills_section (lines 253-265)
skills_section_items(m, ms, cap) ==
    CapLoop(Sorted(m) \o Only(Sorted(ms), SAFE_ALWAYS_ADD), {}, << >>, cap)

build_skills_section(m, ms, cap) == Join(skills_section_items(m, ms, cap), ", ")

\* the CORE SKILLS block of the draft (lines 361-363)
SkillsLines(line) == <<"CORE SKILLS", line, "">>

\* the EXPERIENCE block of the draft (lines 364-366); the other sections of
\* build_resume (contact, summary, projects, education) are not modelled
ExperienceLines(exp_bullets) ==
    <<"EXPERIENCE">> \o [i \in DOMAIN exp_bullets |-> "- " \o exp_bullets[i]]

----------------------------------------------------------------------------
(* tailor_resume_generic.py: main (lines 381-393) *)

\* what the two input files and the vocabulary file can hold when main starts:
\* the text Path.read_text decodes, in which every line ends with \n
InputFiles == {
    NoFile,
    File(""),
    File(" \n"),
    File("Data Engineer with Python, SQL, AWS and dbt\n"),
    File("Experienced with Python and Airflow") }

SkillsFiles == {
    NoFile,
    File("# languages\npython\nsql\n\nPython\naws\nairflow\ndbt\npandas\n"),
    File("data analysis\n  Data Quality\n") }

TailorInit ==
    /\ pc = "main"
    /\ jd_file \in InputFiles
    /\ resume_file \in InputFiles
    /\ skills_file \in SkillsFiles
    /\ out_file = NoFile
    /\ jd = "" /\ resume = ""
    /\ skills = << >> /\ matched = {} /\ missing = {}
    /\ out = << >> /\ bullets = << >>
    /\ max_items = DefaultMaxItems /\ skills_line = ""
    /\ ExtractIdle

\* lines 382-383
ReadInputs ==
    /\ pc = "main"
    /\ jd' = read_text(jd_file)
    /\ resume' = read_text(resume_file)
    /\ pc' = "inputs_read"
    /\ UNCHANGED <<skills, matched, missing, jd_file, resume_file, skills_file,
                   out_file, out, bullets, max_items, skills_line>>
    /\ UNCHANGED extractOnly

\* "not jd and not resume" in the place of line 385's "or"
InputsMissingBoth(jd_in, resume_in) == jd_in = "" /\ resume_in = ""

\* line 385: not jd or not resume
InputsMissing(jd_in, resume_in) == jd_in = "" \/ resume_in = ""

\* lines 385-386: raise SystemExit, or go on
CheckInputs ==
    /\ pc = "inputs_read"
    /\ pc' = IF InputsMissing(jd, resume) THEN "aborted" ELSE "inputs_ok"
    /\ UNCHANGED <<skills, matched, missing>>
    /\ UNCHANGED tailorOnly
    /\ UNCHANGED extractOnly

\* line 388
LoadSkills ==
    /\ pc = "inputs_ok"
    /\ skills' = tailor_load_skills(skills_file)
    /\ pc' = "skills_loaded"
    /\ UNCHANGED <<matched, missing>>
    /\ UNCHANGED tailorOnly
    /\ UNCHANGED extractOnly

\* line 389: build_resume (lines 321-379)
BuildResume ==
    /\ pc = "skills_loaded"
    /\ matched' = tailor_extract_known_skills(jd, skills)
                    \cap tailor_extract_known_skills(resume, skills)
    /\ missing' = tailor_extract_known_skills(jd, skills)
                    \ tailor_extract_known_skills(resume, skills)
    /\ bullets' = build_experience_bullets("Professional", matched', missing')
    /\ skills_line' = build_skills_section(matched', missing', max_items)
    /\ out' = SkillsLines(skills_line') \o ExperienceLines(bullets')
    /\ pc' = "built"
    /\ UNCHANGED <<skills, jd_file, resume_file, skills_file, out_file, jd, resume,
                   max_items>>
    /\ UNCHANGED extractOnly

\* lines 391-393
WriteOutput ==
    /\ pc = "built"
    /\ out_file' = File(Join(out, "\n") \o "\n")
    /\ pc' = "saved"
    /\ UNCHANGED <<skills, matched, missing, jd_file, resume_file, skills_file,
                   jd, resume, out, bullets, max_items, skills_line>>
    /\ UNCHANGED extractOnly

TailorNext ==
    \/ ReadInputs
    \/ CheckInputs
    \/ LoadSkills
    \/ BuildResume
    \/ WriteOutput

SpecTailor == TailorInit /\ [][TailorNext]_vars

\* the document is absent, or empty once stripped
IsMissingInput(file) == ~file.exists \/ \A i \in 1..Len(file.text) : IsSpaceCh(Ch(file.text, i))

\* C9: when the job description or the resume is absent or empty once
\* stripped, main aborts before build_resume and out/tailored_resume.txt is
\* never written; the file is written only when both inputs are non-empty.
C9_AbortOnMissingInput ==
    /\ (IsMissingInput(jd_file) \/ IsMissingInput(resume_file)) =>
          /\ pc \in {"main", "inputs_read", "aborted"}
          /\ out_file = NoFile
          /\ out = << >>
    /\ pc = "aborted" => (IsMissingInput(jd_file) \/ IsMissingInput(resume_file))
    /\ out_file # NoFile => ~IsMissingInput(jd_file) /\ ~IsMissingInput(resume_file)

\* the run with a job description and an empty resume file has aborted
C9_Witness ==
    /\ pc = "aborted"
    /\ ~IsMissingInput(jd_file)
    /\ resume_file = File("")
    /\ out_file = NoFile

----------------------------------------------------------------------------
(* tailor_resume_generic.py: build_experience_bullets on every pair of sets *)

\* the skills build_experience_bullets looks at, and two of the safe ones
BulletSkills == {"python", "sql", "airflow", "dbt", "data modeling", "data quality",
                 "aws", "pandas", "etl"}

\* matched and missing as build_resume makes them: disjoint sets of skills
BulletsInit ==
    /\ pc = "call"
    /\ matched \in SUBSET BulletSkills
    /\ missing \in SUBSET (BulletSkills \ matched)
    /\ skills = << >>
    /\ bullets = << >>
    /\ jd_file = NoFile /\ resume_file = NoFile /\ skills_file = NoFile
    /\ out_file = NoFile /\ jd = "" /\ resume = "" /\ out = << >>
    /\ max_items = DefaultMaxItems /\ skills_line = ""
    /\ ExtractIdle

BuildExperienceBullets ==
    /\ pc = "call"
    /\ bullets' = build_experience_bullets("Professional", matched, missing)
    /\ pc' = "returned"
    /\ UNCHANGED <<skills, matched, missing, jd_file, resume_file, skills_file,
                   out_file, jd, resume, out, max_items, skills_line>>
    /\ UNCHANGED extractOnly

BulletsNext == BuildExperienceBullets

SpecBullets == BulletsInit /\ [][BulletsNext]_vars

\* C10: build_experience_bullets returns at least 4 and at most 6 bullets.
C10_FourToSixBullets ==
    pc = "returned" => Len(bullets) >= 4 /\ Len(bullets) <= 6

----------------------------------------------------------------------------
(* tailor_resume_generic.py: build_skills_section on every pair of sets and
   every max_items *)

MaxItemsBound == 3

\* skills of which two are safe to add
LineSkills == {"python", "aws", "sql", "pandas", "etl"}

\* any two sets of skills, overlapping or not, and any cap from 0 up
SkillsLineInit ==
    /\ pc = "call"
    /\ matched \in SUBSET LineSkills
    /\ missing \in SUBSET LineSkills
    /\ max_items \in 0..MaxItemsBound
    /\ skills_line = ""
    /\ skills = << >>
    /\ bullets = << >>
    /\ jd_file = NoFile /\ resume_file = NoFile /\ skills_file = NoFile
    /\ out_file = NoFile /\ jd = "" /\ resume = "" /\ out = << >>
    /\ ExtractIdle

BuildSkillsSection ==
    /\ pc = "call"
    /\ skills_line' = build_skills_section(matched, missing, max_items)
    /\ pc' = "returned"
    /\ UNCHANGED <<skills, matched, missing, jd_file, resume_file, skills_file,
                   out_file, jd, resume, out, bullets, max_items>>
    /\ UNCHANGED extractOnly

SkillsLineNext == BuildSkillsSection

SpecSkillsLine == SkillsLineInit /\ [][SkillsLineNext]_vars

RECURSIVE SplitOn(_, _, _)
\* line.split(sep) for a non-empty line: cur is the item being read
SplitOn(line, sep, cur) ==
    IF line = "" THEN <<cur>>
    ELSE IF StartsWith(line, sep)
         THEN <<cur>> \o SplitOn(SubSeq(line, Len(sep) + 1, Len(line)), sep, "")
         ELSE SplitOn(SubSeq(line, 2, Len(line)), sep, cur \o Ch(line, 1))

\* the items a skills line lists
ItemsOf(line) == IF line = "" THEN << >> ELSE SplitOn(line, ", ", "")

----------------------------------------------------------------------------
(* extract_skills.py: the script run on a job description that is an alias *)

\* the keys of the alias table
AliasKeys == {ALIASES[i][1] : i \in DOMAIN ALIASES}

AliasInit ==
    /\ pc = "read"
    /\ jd_text \in AliasKeys
    /\ resume_text \in ResumeTexts
    /\ skills \in Vocabularies
    /\ jd_norm = "" /\ resume_norm = ""
    /\ jd_known = {} /\ resume_known = {}
    /\ jd_dyn = {} /\ resume_dyn = {}
    /\ dyn_shared = {} /\ jd_skills = {} /\ resume_skills = {}
    /\ matched = {} /\ missing = {}
    /\ match_percent = [raised |-> FALSE, num |-> 0, den |-> 1]
    /\ TailorIdle

SpecAlias == AliasInit /\ [][Next]_vars

\* C12: every alias is rewritten to its canonical form: for each entry
\* (k -> v) of the alias table, normalize(k) = v.
C12_AliasCanonical ==
    pc # "read" =>
        \A i \in DOMAIN ALIASES : jd_text = ALIASES[i][1] => jd_norm = ALIASES[i][2]

====
